---- MODULE Spec2Model ----
(***************************************************************************)
(* Model of rust_core: the structural extractor (CodeParser::parse_file),  *)
(* the config section extractor (parse_config_file and its parsers), the   *)
(* dispatcher (parse_source_file) and the batch orchestrator               *)
(* (batch_parse_files).                                                    *)
(*                                                                         *)
(* Texts are sequences of one-character strings; a source text is held as  *)
(* the sequence of its lines (what str::lines() yields), so a text with no *)
(* lines is the empty source.  A path is a sequence of tokens: "." and "/" *)
(* are the separators, every other token is a run of ordinary characters.  *)
(* The results of the external engines on a file (the structured-data      *)
(* parser's value tree, tree-sitter's matches) are part of the file's      *)
(* content record; what the build fixes (crate features, whether a query   *)
(* compiles) is the variable build.                                        *)
(***************************************************************************)
EXTENDS Integers, Sequences, FiniteSets, TLC

\* Bounds of the model.
MaxPathLen == 3
MaxLines == 2
MaxEntries == 2
MaxConstructs == 2
MaxBatch == 3
MaxScanLines == 3

---------------------------------------------------------------------------
\* Generic helpers.

Range(s) == {s[i] : i \in 1..Len(s)}

SeqsUpTo(S, n) == UNION {[1..k -> S] : k \in 0..n}

None == [some |-> FALSE, val |-> <<>>]
Some(v) == [some |-> TRUE, val |-> v]

Ok(v) == [ok |-> TRUE, value |-> v]
Err(e) == [ok |-> FALSE, error |-> e]

RECURSIVE Flatten(_)
Flatten(ss) == IF ss = <<>> THEN <<>> ELSE Head(ss) \o Flatten(Tail(ss))

\* Byte values of the characters the model uses (String ordering is bytewise).
CharCode(c) ==
    CASE c = "\t" -> 9
      [] c = "\n" -> 10
      [] c = "\r" -> 13
      [] c = " " -> 32
      [] c = "1" -> 49
      [] c = "a" -> 97
      [] c = "b" -> 98
      [] c = "f" -> 102
      [] c = "g" -> 103
      [] OTHER -> 120

\* s < t in the bytewise lexicographic order of Rust's String.
RECURSIVE StrLess(_, _)
StrLess(s, t) ==
    IF t = <<>> THEN FALSE
    ELSE IF s = <<>> THEN TRUE
    ELSE IF CharCode(Head(s)) # CharCode(Head(t))
         THEN CharCode(Head(s)) < CharCode(Head(t))
         ELSE StrLess(Tail(s), Tail(t))

\* str::contains: key occurs in line as a contiguous substring.
Contains(line, key) ==
    \E i \in 1..(Len(line) + 1) :
        /\ i + Len(key) - 1 <= Len(line)
        /\ \A j \in 1..Len(key) : line[i + j - 1] = key[j]

IsSpace(c) == c \in {" ", "\t", "\n", "\r"}

\* str::trim
RECURSIVE TrimStart(_)
TrimStart(s) == IF s # <<>> /\ IsSpace(Head(s)) THEN TrimStart(Tail(s)) ELSE s

RECURSIVE TrimEnd(_)
TrimEnd(s) ==
    IF s # <<>> /\ IsSpace(s[Len(s)]) THEN TrimEnd(SubSeq(s, 1, Len(s) - 1)) ELSE s

Trim(s) == TrimEnd(TrimStart(s))

\* str::lines of a text given as characters: split at "\n"; a final empty
\* piece is not a line.
RECURSIVE StrLines(_)
StrLines(s) ==
    IF s = <<>> THEN <<>>
    ELSE IF "\n" \notin Range(s) THEN <<s>>
    ELSE LET i == CHOOSE i \in 1..Len(s) :
                      s[i] = "\n" /\ \A j \in 1..(i - 1) : s[j] # "\n"
         IN <<SubSeq(s, 1, i - 1)>> \o StrLines(SubSeq(s, i + 1, Len(s)))

\* [String]::join
RECURSIVE Join(_, _)
Join(ls, sep) ==
    IF ls = <<>> THEN <<>>
    ELSE IF Len(ls) = 1 THEN ls[1]
    ELSE ls[1] \o sep \o Join(Tail(ls), sep)

---------------------------------------------------------------------------
\* Paths and extensions.

\* The path's pieces between "/" separators.
RECURSIVE Split(_)
Split(p) ==
    IF "/" \notin Range(p) THEN <<p>>
    ELSE LET i == CHOOSE i \in 1..Len(p) :
                      p[i] = "/" /\ \A j \in 1..(i - 1) : p[j] # "/"
         IN <<SubSeq(p, 1, i - 1)>> \o Split(SubSeq(p, i + 1, Len(p)))

\* Path::file_name: the last component when it is a normal one; empty
\* pieces and "." pieces are no components of their own, ".." has no name.
file_name(p) ==
    LET comps == SelectSeq(Split(p), LAMBDA s : s # <<>> /\ s # <<".">>)
    IN IF comps = <<>> \/ comps[Len(comps)] = <<".", ".">>
       THEN None
       ELSE Some(comps[Len(comps)])

\* Path::extension: the part of the file name after its last ".", when the
\* file name has a "." that is not its first character.
extension(p) ==
    LET fname == file_name(p)
    IN IF ~fname.some THEN None
       ELSE LET f == fname.val
                dots == {i \in 1..Len(f) : f[i] = "."}
            IN IF dots = {} THEN None
               ELSE LET last == CHOOSE i \in dots : \A j \in dots : j <= i
                    IN IF last = 1 THEN None
                       ELSE Some(SubSeq(f, last + 1, Len(f)))

\* Option::unwrap_or("")
unwrap_or_empty(opt) == IF opt.some THEN opt.val ELSE <<>>

is_config_extension_without_yml(ext) == ext \in {<<"json">>, <<"yaml">>, <<"toml">>}

\* matches!(extension, "json" | "yaml" | "yml" | "toml")
is_config_extension(ext) == ext \in {<<"json">>, <<"yaml">>, <<"yml">>, <<"toml">>}

\* SupportedLanguage::from_extension, the language registry.
from_extension(ext) ==
    CASE ext = <<"py">> -> Some("Python")
      [] ext \in {<<"js">>, <<"jsx">>, <<"mjs">>} -> Some("JavaScript")
      [] ext \in {<<"ts">>, <<"tsx">>} -> Some("TypeScript")
      [] ext = <<"java">> -> Some("Java")
      [] ext = <<"go">> -> Some("Go")
      [] ext = <<"rs">> -> Some("Rust")
      [] ext = <<"rb">> -> Some("Ruby")
      [] ext = <<"c">> -> Some("C")
      [] ext \in {<<"cpp">>, <<"cc">>, <<"cxx">>, <<"hpp">>, <<"h">>, <<"hxx">>, <<"hh">>}
           -> Some("Cpp")
      [] ext = <<"cs">> -> Some("CSharp")
      [] ext = <<"sql">> -> Some("Sql")
      [] ext = <<"php">> -> Some("Php")
      [] OTHER -> None

---------------------------------------------------------------------------
\* Records of the library.

\* A SemanticUnit.
SemanticUnit(unit_type, name, start_line, end_line, start_byte, end_byte, content, language) ==
    [unit_type |-> unit_type, name |-> name,
     start_line |-> start_line, end_line |-> end_line,
     start_byte |-> start_byte, end_byte |-> end_byte,
     signature |-> name, content |-> content, language |-> language]

\* A ParseResult, without parse_time_ms (wall-clock time is not modelled).
ParseResult(file_path, language, units) ==
    [file_path |-> file_path, language |-> language, units |-> units]

\* An error message: its fixed text and the text formatted into it.
Error(msg, arg) == [msg |-> msg, arg |-> arg]

---------------------------------------------------------------------------
\* Config section extractor (config_parsing.rs).

Quote == <<"\"">>
ComplexObject == <<"[", "c", "o", "m", "p", "l", "e", "x", " ", "o", "b", "j", "e", "c", "t", "]">>
ComplexSection == <<"[", "c", "o", "m", "p", "l", "e", "x", " ", "s", "e", "c", "t", "i", "o", "n", "]">>

starts_with(line, c) == line # <<>> /\ line[1] = c

\* The test of the inner loop without its trim().is_empty() part.
is_next_top_level_no_trim(line) ==
    ~starts_with(line, " ") /\ ~starts_with(line, "\t")

\* The test of the inner loop of find_key_lines: a non-indented, non-blank line.
is_next_top_level(line) ==
    ~starts_with(line, " ") /\ ~starts_with(line, "\t") /\ Trim(line) # <<>>

\* The inner loop of find_key_lines, on 1-indexed line numbers: n is the
\* line being visited (i + 1 in the code), end the value of end so far.
RECURSIVE scan_end(_, _, _)
scan_end(lines, n, end) ==
    IF n > Len(lines) THEN end
    ELSE IF is_next_top_level(lines[n]) THEN n - 1
    ELSE scan_end(lines, n + 1, n)

\* find_key_lines with end initialised to the 0-indexed position.
find_key_lines_end_from_idx(lines, key) ==
    LET hits == {i \in 1..Len(lines) : Contains(lines[i], key)}
    IN IF hits = {} THEN <<1, Len(lines)>>
       ELSE LET start == CHOOSE i \in hits : \A j \in hits : i <= j
            IN <<start, scan_end(lines, start + 1, start - 1)>>

\* find_key_lines that keeps scanning after a hit and so returns the last one.
find_key_lines_last_hit(lines, key) ==
    LET hits == {i \in 1..Len(lines) : Contains(lines[i], key)}
    IN IF hits = {} THEN <<1, Len(lines)>>
       ELSE LET start == CHOOSE i \in hits : \A j \in hits : i >= j
            IN <<start, scan_end(lines, start + 1, start)>>

\* find_key_lines: <<start_line, end_line>> of a key in the source lines.
find_key_lines(lines, key) ==
    LET hits == {i \in 1..Len(lines) : Contains(lines[i], key)}
    IN IF hits = {} THEN <<1, Len(lines)>>
       ELSE LET start == CHOOSE i \in hits : \A j \in hits : i <= j
            IN <<start, scan_end(lines, start + 1, start)>>

format_json_section(key, value) ==
    IF value.ser.some
    THEN Quote \o key \o Quote \o <<":", " ">> \o value.ser.val
    ELSE Quote \o key \o Quote \o <<":", " ">> \o ComplexObject

format_yaml_section(key, value) ==
    IF value.ser.some
    THEN LET ls == StrLines(value.ser.val)
             indented == [i \in 1..Len(ls) |->
                             IF ls[i] = <<>> THEN ls[i] ELSE <<" ", " ">> \o ls[i]]
         IN key \o <<":", "\n">> \o Join(indented, <<"\n">>)
    ELSE key \o <<":", " ">> \o ComplexObject

format_toml_section(key, value) ==
    IF value.ser.some
    THEN IF value.table
         THEN <<"[">> \o key \o <<"]", "\n">> \o value.ser.val
         ELSE key \o <<" ", "=", " ">> \o Trim(value.ser.val)
    ELSE <<"[">> \o key \o <<"]", "\n">> \o ComplexSection

\* Insert entry e into a sequence of entries sorted by key.
RECURSIVE insert_sorted(_, _)
insert_sorted(sorted, e) ==
    IF sorted = <<>> THEN <<e>>
    ELSE IF StrLess(e.key.text, Head(sorted).key.text) THEN <<e>> \o sorted
    ELSE <<Head(sorted)>> \o insert_sorted(Tail(sorted), e)

RECURSIVE sort_by_key(_)
sort_by_key(entries) ==
    IF entries = <<>> THEN <<>>
    ELSE insert_sorted(sort_by_key(SubSeq(entries, 1, Len(entries) - 1)),
                       entries[Len(entries)])

\* map.iter() of a serde_json Map or a toml Table built from the document's
\* entries: insertion order when the crate is built with preserve_order,
\* ascending key order (a BTreeMap) otherwise.
map_iter(entries, preserve_order) ==
    IF preserve_order THEN entries ELSE sort_by_key(entries)

\* config_unit with byte offsets taken from the position of the key's line.
config_unit_line_offsets(lines, e, content, language) ==
    LET span == find_key_lines(lines, e.key.text)
    IN SemanticUnit("class", e.key.text, span[1], span[2], span[1] - 1,
                    span[1] - 1 + Len(content), content, language)

\* The unit pushed for one top-level entry.
config_unit(lines, e, content, language) ==
    LET span == find_key_lines(lines, e.key.text)
    IN SemanticUnit("class", e.key.text, span[1], span[2], 0, Len(content),
                    content, language)

parse_json_skip_last(source, b) ==
    IF source.data.kind = "error"
    THEN Err(Error("JSON parse error", source.data.msg))
    ELSE IF source.data.kind = "map"
    THEN LET it == map_iter(source.data.entries, "serde_json" \in b.preserve_order)
         IN Ok([i \in 1..(Len(it) - 1) |->
                   config_unit(source.lines, it[i],
                               format_json_section(it[i].key.text, it[i].value), "Json")])
    ELSE Ok(<<>>)

parse_json(source, b) ==
    IF source.data.kind = "error"
    THEN Err(Error("JSON parse error", source.data.msg))
    ELSE IF source.data.kind = "map"
    THEN LET it == map_iter(source.data.entries, "serde_json" \in b.preserve_order)
         IN Ok([i \in 1..Len(it) |->
                   config_unit(source.lines, it[i],
                               format_json_section(it[i].key.text, it[i].value), "Json")])
    ELSE Ok(<<>>)

parse_yaml_all_keys(source, b) ==
    IF source.data.kind = "error"
    THEN Err(Error("YAML parse error", source.data.msg))
    ELSE IF source.data.kind = "map"
    THEN LET it == source.data.entries
         IN Ok([i \in 1..Len(it) |->
                   config_unit(source.lines, it[i],
                               format_yaml_section(it[i].key.text, it[i].value), "Yaml")])
    ELSE Ok(<<>>)

\* parse_yaml: a serde_yaml Mapping iterates in document order; entries
\* whose key is not a string are passed over.
parse_yaml(source, b) ==
    IF source.data.kind = "error"
    THEN Err(Error("YAML parse error", source.data.msg))
    ELSE IF source.data.kind = "map"
    THEN LET it == SelectSeq(source.data.entries, LAMBDA e : e.key.str)
         IN Ok([i \in 1..Len(it) |->
                   config_unit(source.lines, it[i],
                               format_yaml_section(it[i].key.text, it[i].value), "Yaml")])
    ELSE Ok(<<>>)

parse_toml(source, b) ==
    IF source.data.kind = "error"
    THEN Err(Error("TOML parse error", source.data.msg))
    ELSE IF source.data.kind = "map"
    THEN LET it == map_iter(source.data.entries, "toml" \in b.preserve_order)
         IN Ok([i \in 1..Len(it) |->
                   config_unit(source.lines, it[i],
                               format_toml_section(it[i].key.text, it[i].value), "Toml")])
    ELSE Ok(<<>>)

parse_config_file(file_path, source, b) ==
    LET ext == extension(file_path)
    IN IF ~ext.some THEN Err(Error("No file extension", <<>>))
       ELSE LET parsed ==
                    CASE ext.val = <<"json">> -> [units |-> parse_json(source, b), language |-> "Json"]
                      [] ext.val \in {<<"yaml">>, <<"yml">>} ->
                             [units |-> parse_yaml(source, b), language |-> "Yaml"]
                      [] ext.val = <<"toml">> -> [units |-> parse_toml(source, b), language |-> "Toml"]
                      [] OTHER ->
                             [units |-> Err(Error("Unsupported config file extension", ext.val)),
                              language |-> ""]
            IN IF ~parsed.units.ok THEN parsed.units
               ELSE Ok(ParseResult(file_path, parsed.language, parsed.units.value))

---------------------------------------------------------------------------
\* Structural extractor (parsing.rs).

\* The matches of a pattern in the tree, in the order the engine finds them.
query_matches(tree, kind) == SelectSeq(tree.constructs, LAMBDA c : c.kind = kind)

\* QueryCursor::captures: the items the iterator yields for the matches, one
\* item (match, capture index) per capture of each match.
captures(matches) ==
    Flatten([i \in 1..Len(matches) |->
                [k \in 1..Len(matches[i].captures) |->
                    [match |-> matches[i], index |-> k]]])

\* The unit pushed for one yielded item: built from match_.captures.first().
code_unit(item, unit_type, lang_name) ==
    LET node == item.match.captures[1]
        ls == StrLines(node.text)
        name == Trim(IF ls = <<>> THEN <<>> ELSE ls[1])
    IN SemanticUnit(unit_type, name, node.start_row + 1, node.end_row + 1,
                    node.start_byte, node.end_byte, node.text, lang_name)

\* One "match Query::new(..)" block: the loop over the yielded items when
\* the query compiles, nothing when it does not.
extract(tree, kind, lang_name, compiles) ==
    IF compiles
    THEN LET items == captures(query_matches(tree, kind))
         IN [i \in 1..Len(items) |-> code_unit(items[i], kind, lang_name)]
    ELSE <<>>

units_classes_first(tree, lang_name, b) ==
    extract(tree, "class", lang_name, "class" \notin b.broken_queries)
    \o extract(tree, "function", lang_name, "function" \notin b.broken_queries)

\* The units vector of parse_file: the function block, then the class block.
parse_file_units(tree, lang_name, b) ==
    extract(tree, "function", lang_name, "function" \notin b.broken_queries)
    \o extract(tree, "class", lang_name, "class" \notin b.broken_queries)

parse_file_query_error(file_path, source, b) ==
    LET ext == extension(file_path)
    IN IF ~ext.some THEN Err(Error("No file extension", <<>>))
       ELSE LET lang == from_extension(ext.val)
            IN IF ~lang.some THEN Err(Error("Unsupported file extension", ext.val))
               ELSE IF ~source.tree.parsed THEN Err(Error("Failed to parse file", <<>>))
               ELSE IF b.broken_queries # {} THEN Err(Error("Query failed", <<>>))
               ELSE Ok(ParseResult(file_path, lang.val,
                                   parse_file_units(source.tree, lang.val, b)))

\* CodeParser::parse_file.  CodeParser::new registers a parser for every
\* language of the registry, so "Parser not found" has no case.
parse_file(file_path, source, b) ==
    LET ext == extension(file_path)
    IN IF ~ext.some THEN Err(Error("No file extension", <<>>))
       ELSE LET lang == from_extension(ext.val)
            IN IF ~lang.some THEN Err(Error("Unsupported file extension", ext.val))
               ELSE IF ~source.tree.parsed THEN Err(Error("Failed to parse file", <<>>))
               ELSE Ok(ParseResult(file_path, lang.val,
                                   parse_file_units(source.tree, lang.val, b)))

---------------------------------------------------------------------------
\* Dispatcher and batch task.

\* parse_source_file told a config file by the last token of its path.
parse_source_file_by_suffix(file_path, source_code, b) ==
    LET ext == IF file_path = <<>> THEN <<>> ELSE <<file_path[Len(file_path)]>>
    IN IF is_config_extension(ext)
       THEN [handler |-> "config", result |-> parse_config_file(file_path, source_code, b)]
       ELSE [handler |-> "code", result |-> parse_file(file_path, source_code, b)]

\* parse_source_file: which extractor the call is handed to, and its result.
parse_source_file(file_path, source_code, b) ==
    LET ext == unwrap_or_empty(extension(file_path))
    IN IF is_config_extension(ext)
       THEN [handler |-> "config", result |-> parse_config_file(file_path, source_code, b)]
       ELSE [handler |-> "code", result |-> parse_file(file_path, source_code, b)]

\* The closure batch_parse_files maps over the files.
batch_task(file_path, content, b) ==
    LET ext == unwrap_or_empty(extension(file_path))
    IN IF is_config_extension(ext)
       THEN [handler |-> "config", result |-> parse_config_file(file_path, content, b)]
       ELSE [handler |-> "code", result |-> parse_file(file_path, content, b)]

collect_partial(saved, outcomes) ==
    LET oks == SelectSeq(outcomes, LAMBDA o : o.some /\ o.val.result.ok)
    IN Ok([i \in 1..Len(oks) |-> oks[i].val.result.value])

\* collect that keeps one result for each file path.
collect_by_path(saved, outcomes) ==
    IF saved.some THEN Err(saved.val)
    ELSE LET oks == SelectSeq(outcomes, LAMBDA o : o.some /\ o.val.result.ok)
             vals == [i \in 1..Len(oks) |-> oks[i].val.result.value]
             RECURSIVE keep(_, _)
             keep(n, acc) ==
                 IF n > Len(vals) THEN acc
                 ELSE IF \E k \in 1..Len(acc) : acc[k].file_path = vals[n].file_path
                      THEN keep(n + 1, acc)
                      ELSE keep(n + 1, Append(acc, vals[n]))
         IN Ok(keep(1, <<>>))

collect_reversed(saved, outcomes) ==
    IF saved.some THEN Err(saved.val)
    ELSE LET oks == SelectSeq(outcomes, LAMBDA o : o.some /\ o.val.result.ok)
         IN Ok([i \in 1..Len(oks) |-> oks[Len(oks) + 1 - i].val.result.value])

\* collect() into Result<Vec<ParseResult>, String>: the saved error when a
\* task failed, else the tasks' values in the order of the input.
collect(saved, outcomes) ==
    IF saved.some THEN Err(saved.val)
    ELSE LET oks == SelectSeq(outcomes, LAMBDA o : o.some /\ o.val.result.ok)
         IN Ok([i \in 1..Len(oks) |-> oks[i].val.result.value])

---------------------------------------------------------------------------
\* The inputs the model draws from.

\* Builds of the library: the crates built with preserve_order, and the
\* patterns Query::new rejects for the bundled grammars.
Builds ==
    {[preserve_order |-> {}, broken_queries |-> {}],
     [preserve_order |-> {"serde_json"}, broken_queries |-> {}],
     [preserve_order |-> {"toml"}, broken_queries |-> {}],
     [preserve_order |-> {}, broken_queries |-> {"function"}],
     [preserve_order |-> {}, broken_queries |-> {"class"}],
     [preserve_order |-> {}, broken_queries |-> {"function", "class"}]}

PathTokens == {".", "/", "json", "yml", "py", "xyz"}

ConfigExtensions == {"json", "yaml", "yml", "toml"}

RegistryExtensions ==
    {"py", "js", "jsx", "mjs", "ts", "tsx", "java", "go", "rs", "rb", "c", "cpp",
     "cc", "cxx", "hpp", "h", "hxx", "hh", "cs", "sql", "php"}

OtherExtensions == {"xyz", "JSON", "txt"}

\* Paths built freely from the tokens, and a plain name with each extension.
FreePaths == SeqsUpTo(PathTokens, MaxPathLen)

NamedPaths ==
    {<<"a", ".", e>> : e \in ConfigExtensions \cup RegistryExtensions \cup OtherExtensions}

\* Trees: the constructs the patterns match, each with the nodes it captures
\* (the node of the whole construct first).
NodeAt(row, byte, text) ==
    [start_row |-> row,
     end_row |-> row + Cardinality({i \in 1..Len(text) : text[i] = "\n"}),
     start_byte |-> byte, end_byte |-> byte + Len(text), text |-> text]

WholeF == NodeAt(0, 0, <<"f", " ", "\n", " ", "b">>)
NameF == NodeAt(0, 0, <<"f">>)
BodyF == NodeAt(1, 3, <<" ", "b">>)
WholeG == NodeAt(2, 6, <<" ", "g">>)

CaptureLists == {<<WholeF>>, <<WholeF, NameF, BodyF>>, <<WholeG>>}

Constructs == [kind : {"function", "class"}, captures : CaptureLists]

NoTree == [parsed |-> FALSE, constructs |-> <<>>]
EmptyTree == [parsed |-> TRUE, constructs |-> <<>>]

Trees ==
    {NoTree} \cup {[parsed |-> TRUE, constructs |-> cs] : cs \in SeqsUpTo(Constructs, MaxConstructs)}

\* Documents: the source lines and what the structured-data parser makes of
\* them: an error, a value that is no mapping, or the top-level entries in
\* document order (distinct keys).
DocLines == {<<>>, <<"a">>, <<" ", "b">>, <<"a", "b">>}

Texts == SeqsUpTo(DocLines, MaxLines)

StrKey(text) == [str |-> TRUE, text |-> text]
NumKey == [str |-> FALSE, text |-> <<"1">>]

DocKeys == {StrKey(<<"a">>), StrKey(<<"b">>), NumKey}

Scalar == [table |-> FALSE, ser |-> Some(<<"1">>)]
Table == [table |-> TRUE, ser |-> Some(<<"b", ":", " ", "1", "\n">>)]

DocValues == {Scalar, Table}

EntryLists ==
    {es \in SeqsUpTo([key : DocKeys, value : DocValues], MaxEntries) :
        \A i, j \in 1..Len(es) : i # j => es[i].key # es[j].key}

DataError(m) == [kind |-> "error", msg |-> m, entries |-> <<>>]
DataScalar == [kind |-> "scalar", msg |-> <<>>, entries |-> <<>>]
DataMap(es) == [kind |-> "map", msg |-> <<>>, entries |-> es]

\* The empty source is no JSON document, and a YAML or TOML document
\* without entries; only a YAML mapping has keys that are not strings.
ConfigContents ==
    {[lines |-> t, data |-> d, tree |-> EmptyTree] :
        t \in Texts,
        d \in {DataError(<<"e1">>), DataScalar} \cup {DataMap(es) : es \in EntryLists}}

Feasible(path, c) ==
    LET ext == unwrap_or_empty(extension(path))
    IN /\ c.lines = <<>> =>
            /\ c.data.entries = <<>>
            /\ ext = <<"json">> => c.data.kind = "error"
            /\ ext = <<"toml">> => c.data.kind = "map"
            /\ ext \in {<<"yaml">>, <<"yml">>} => c.data.kind = "scalar"
       /\ ext \in {<<"json">>, <<"toml">>} =>
            \A i \in 1..Len(c.data.entries) : c.data.entries[i].key.str
       /\ ext = <<"toml">> => c.data.kind # "scalar"


\* Code files: the lines of the text the nodes above lie in, and a tree.
CodeLines == << <<"f", " ">>, <<" ", "b">>, <<" ", "g">> >>

CodeContents == {[lines |-> CodeLines, data |-> DataError(<<"e1">>), tree |-> t] : t \in Trees}

\* Two contents for the calls that vary the path: one every extractor
\* accepts, one every extractor's parser rejects.
Accepted ==
    [lines |-> << <<"a">> >>,
     data |-> DataMap(<< [key |-> StrKey(<<"a">>), value |-> Scalar] >>),
     tree |-> [parsed |-> TRUE,
               constructs |-> << [kind |-> "function", captures |-> <<WholeF, NameF, BodyF>>] >>]]

Rejected == [lines |-> << <<"a">> >>, data |-> DataError(<<"e2">>), tree |-> NoTree]

ConfigPaths == {<<"a", ".", "json">>, <<"a", ".", "yaml">>, <<"a", ".", "toml">>}
CodePaths == {<<"a", ".", "py">>}

File(path, content) == [path |-> path, content |-> content]

Files ==
    {f \in [path : FreePaths \cup NamedPaths, content : {Accepted, Rejected}]
           \cup [path : ConfigPaths, content : ConfigContents]
           \cup [path : CodePaths, content : CodeContents] :
        Feasible(f.path, f.content)}

\* The files batches are made of: two that parse, two that fail, each with
\* an error of its own.
BatchFiles ==
    {File(<<"a", ".", "json">>, Accepted),
     File(<<"a", ".", "py">>, Accepted),
     File(<<"a", ".", "xyz">>, Accepted),
     File(<<"json">>, Accepted)}

Batches == SeqsUpTo(BatchFiles, MaxBatch)

---------------------------------------------------------------------------
\* The state machine: the host calls parse_source_file or batch_parse_files.
\* Neither operation keeps state from one call to the next (every call builds
\* its own parsers), so a behaviour is one call, from a state where none was
\* made yet to its return.

VARIABLES
    build,         \* the build of the library
    op,            \* the operation called: "none", "parse_source_file", "batch_parse_files"
    call,          \* parse_source_file: the file passed
    handler,       \* parse_source_file: the extractor the call was handed to
    result,        \* parse_source_file: the value returned
    files,         \* batch_parse_files: the list passed
    task,          \* batch: per item "pending", "running", "done" or "skipped"
    outcome,       \* batch: per item what its task returned
    saved_error,   \* batch: the first error collect() saved
    full,          \* batch: set once a task failed; no further item is started
    batch_result,  \* batch: the value returned
    parsers,       \* batch: per item the CodeParser its task built, and the tasks that used it
    scan           \* find_key_lines: the arguments of a call and the span returned

vars == <<build, op, call, handler, result, files, task, outcome, saved_error, full,
          batch_result, parsers, scan>>

NoFile == File(<<>>, Rejected)

file_vars == <<call, handler, result>>
batch_vars == <<files, task, outcome, saved_error, full, batch_result>>

NoParser == [built |-> FALSE, users |-> {}]
NoScan == [done |-> FALSE, lines |-> <<>>, key |-> <<>>, span |-> <<0, 0>>]

FileIdle == call = NoFile /\ handler = "none" /\ result = None
BatchIdle ==
    /\ files = <<>> /\ task = <<>> /\ outcome = <<>>
    /\ saved_error = None /\ full = FALSE /\ batch_result = None
    /\ parsers = <<>>

Init ==
    /\ build \in Builds
    /\ op = "none"
    /\ FileIdle
    /\ BatchIdle
    /\ scan = NoScan

\* No call was made yet.
NotCalled == op = "none"

\* parse_source_file(file_path, source_code)
ParseSourceFile(f) ==
    /\ op' = "parse_source_file"
    /\ call' = f
    /\ LET r == parse_source_file(f.path, f.content, build)
       IN handler' = r.handler /\ result' = Some(r.result)
    /\ files' = <<>> /\ task' = <<>> /\ outcome' = <<>>
    /\ saved_error' = None /\ full' = FALSE /\ batch_result' = None
    /\ parsers' = <<>>
    /\ UNCHANGED <<build, scan>>

\* batch_parse_files(files): par_iter() makes one task per item.
BatchParseFiles(fs) ==
    /\ op' = "batch_parse_files"
    /\ files' = fs
    /\ task' = [i \in 1..Len(fs) |-> "pending"]
    /\ outcome' = [i \in 1..Len(fs) |-> None]
    /\ saved_error' = None /\ full' = FALSE /\ batch_result' = None
    /\ call' = NoFile /\ handler' = "none" /\ result' = None
    /\ parsers' = [i \in 1..Len(fs) |-> NoParser]
    /\ UNCHANGED <<build, scan>>

Running == op = "batch_parse_files" /\ ~batch_result.some

\* Whether the closure takes its else branch for item i: the file is no
\* config file, so the task builds a CodeParser.
builds_parser(i) == batch_task(files[i].path, files[i].content, build).handler = "code"

parser_shared(i, ps) ==
    LET built == {j \in 1..Len(ps) : ps[j].built}
    IN CHOOSE j \in built : \A k \in built : j <= k

\* The CodeParser the closure calls parse_file on for item i, among the
\* instances ps built so far: the one it bound to its local "parser".
parser_used(i, ps) == i

\* A worker takes item i, unless a failure was already seen, and enters the
\* closure: for a code file it builds a CodeParser (instance i).
TaskStart(i) ==
    /\ Running
    /\ task[i] = "pending"
    /\ ~full
    /\ task' = [task EXCEPT ![i] = "running"]
    /\ parsers' = IF builds_parser(i)
                  THEN [parsers EXCEPT ![i].built = TRUE]
                  ELSE parsers
    /\ UNCHANGED <<build, scan, op, file_vars, files, outcome, saved_error, full,
                   batch_result>>

\* Item i is dropped unprocessed after a failure was seen.
TaskSkip(i) ==
    /\ Running
    /\ task[i] = "pending"
    /\ full
    /\ task' = [task EXCEPT ![i] = "skipped"]
    /\ UNCHANGED <<build, scan, op, file_vars, files, outcome, saved_error, full,
                   batch_result, parsers>>

\* The closure returns for item i; an Err is saved if it is the first, and
\* stops the taking of further items. (collect() saves under a try_lock: a
\* task that finds the lock taken loses to one that is saving its own Err
\* at that moment, so the saved error is again that of a failing task.)
\* For a code file the result comes from parse_file on the task's parser.
TaskFinish(i) ==
    /\ Running
    /\ task[i] = "running"
    /\ LET r == batch_task(files[i].path, files[i].content, build)
       IN /\ outcome' = [outcome EXCEPT ![i] = Some(r)]
          /\ IF r.result.ok
             THEN UNCHANGED <<saved_error, full>>
             ELSE /\ saved_error' = IF saved_error.some THEN saved_error
                                    ELSE Some(r.result.error)
                  /\ full' = TRUE
    /\ task' = [task EXCEPT ![i] = "done"]
    /\ parsers' = IF builds_parser(i)
                  THEN [parsers EXCEPT ![parser_used(i, parsers)].users = @ \cup {i}]
                  ELSE parsers
    /\ UNCHANGED <<build, scan, op, file_vars, files, batch_result>>

\* Every task is over: collect() returns.
BatchReturn ==
    /\ Running
    /\ \A i \in 1..Len(files) : task[i] \in {"done", "skipped"}
    /\ batch_result' = Some(collect(saved_error, outcome))
    /\ UNCHANGED <<build, scan, op, file_vars, files, task, outcome, saved_error, full,
                   parsers>>

Next ==
    \/ NotCalled /\ \E f \in Files : ParseSourceFile(f)
    \/ NotCalled /\ \E fs \in Batches : BatchParseFiles(fs)
    \/ \E i \in 1..Len(files) : TaskStart(i)
    \/ \E i \in 1..Len(files) : TaskSkip(i)
    \/ \E i \in 1..Len(files) : TaskFinish(i)
    \/ BatchReturn

Spec == Init /\ [][Next]_vars

---------------------------------------------------------------------------
\* find_key_lines on its own: one call on a text and a key.

\* The lines texts are made of: blank, indented by a space or a tab, only
\* white space, and lines holding the keys whole or inside a longer word.
ScanLines ==
    {<<>>, <<" ">>, <<"\r", " ">>, <<"a">>, <<"b">>, <<" ", "a">>, <<"\t", "b">>,
     <<"a", "b">>, <<"b", "a", "b">>}

ScanTexts == SeqsUpTo(ScanLines, MaxScanLines)

ScanKeys == {<<>>, <<"a">>, <<"b">>, <<"a", "b">>, <<"a", "a">>}

InitKeyLines ==
    /\ build = [preserve_order |-> {}, broken_queries |-> {}]
    /\ op = "none"
    /\ FileIdle
    /\ BatchIdle
    /\ scan = NoScan

\* find_key_lines(source, key)
FindKeyLines(lines, key) ==
    /\ scan' = [done |-> TRUE, lines |-> lines, key |-> key,
                span |-> find_key_lines(lines, key)]
    /\ UNCHANGED <<build, op, file_vars, batch_vars, parsers>>

NextKeyLines ==
    ~scan.done /\ \E lines \in ScanTexts, key \in ScanKeys : FindKeyLines(lines, key)

SpecKeyLines == InitKeyLines /\ [][NextKeyLines]_vars

---------------------------------------------------------------------------
\* Properties.

\* What the dispatch of item i of the batch returns, whatever the schedule:
\* the closure is a function of the item and the build.
ItemResult(i) == batch_task(files[i].path, files[i].content, build).result

Failing == {i \in 1..Len(files) : ~ItemResult(i).ok}

BatchReturned == op = "batch_parse_files" /\ batch_result.some

FileReturned == op = "parse_source_file" /\ result.some

\* C1: batch_parse_files is all-or-nothing. When at least one item of the
\* batch fails in dispatch the call returns an error, hence no ParseResult,
\* and the error is that of a failing item of the batch; it returns a list
\* only when every item succeeded.
C1_FailFastAllOrNothing ==
    BatchReturned =>
        /\ Failing # {} =>
              /\ ~batch_result.val.ok
              /\ \E i \in Failing : batch_result.val.error = ItemResult(i).error
        /\ batch_result.val.ok => Failing = {}

\* The scenario of the spec: three files, the second with an unsupported
\* extension, the first and third parsed successfully before the return.
C1_Witness ==
    /\ BatchReturned
    /\ Len(files) = 3
    /\ files[2].path = <<"a", ".", "xyz">>
    /\ outcome[1].some /\ outcome[1].val.result.ok
    /\ outcome[3].some /\ outcome[3].val.result.ok
    /\ ~batch_result.val.ok

ConfigExts == {<<e>> : e \in ConfigExtensions}
RegistryExts == {<<e>> : e \in RegistryExtensions}

\* The routing C2 states, for one path, the extractor h it was handed to and
\* the result r.
Routed(path, source, h, r) ==
    LET ext == extension(path)
    IN IF ext.some /\ ext.val \in ConfigExts
       THEN h = "config"
       ELSE /\ h = "code"
            /\ r.ok => ext.some /\ ext.val \in RegistryExts
            /\ (ext.some /\ ext.val \in RegistryExts /\ source.tree.parsed) => r.ok
            /\ (ext.some /\ ext.val \notin RegistryExts) =>
                   r = Err(Error("Unsupported file extension", ext.val))

\* C2: a path with extension json, yaml, yml or toml is handled by the config
\* extractor only; any other path by the structural extractor only, which
\* succeeds only for an extension of the registry and fails with the
\* unsupported-extension error for every other extension. In
\* parse_source_file and in every batch task.
C2_DispatchRouting ==
    /\ FileReturned => Routed(call.path, call.content, handler, result.val)
    /\ \A i \in 1..Len(files) :
          outcome[i].some =>
              Routed(files[i].path, files[i].content, outcome[i].val.handler,
                     outcome[i].val.result)

C2_Witness ==
    /\ op = "batch_parse_files"
    /\ \E i, j, k \in 1..Len(files) :
          /\ outcome[i].some /\ outcome[i].val.handler = "config" /\ outcome[i].val.result.ok
          /\ outcome[j].some /\ outcome[j].val.handler = "code" /\ outcome[j].val.result.ok
          /\ files[k].path = <<"a", ".", "xyz">>
          /\ outcome[k].some /\ outcome[k].val.handler = "code"
          /\ outcome[k].val.result.error.msg = "Unsupported file extension"

NoFileExtension == Err(Error("No file extension", <<>>))

\* C3 as claimed: a path with no extension fails before any delegation (no
\* extractor is handed the call), with the MissingExtension error.
C3_FailsBeforeDelegation ==
    (FileReturned /\ ~extension(call.path).some) =>
        handler = "none" /\ result.val = NoFileExtension

\* C3 amended: a path with no extension is never handed to the config
\* extractor; it is handed to the structural extractor, whose first step
\* fails with the one "No file extension" error; no ParseResult is produced.
\* In parse_source_file and in every batch task.
C3_MissingExtension ==
    /\ (FileReturned /\ ~extension(call.path).some) =>
          handler = "code" /\ result.val = NoFileExtension
    /\ \A i \in 1..Len(files) :
          (outcome[i].some /\ ~extension(files[i].path).some) =>
              outcome[i].val = [handler |-> "code", result |-> NoFileExtension]

\* A file named ".json": a name that is all extension has none.
C3_Witness ==
    /\ FileReturned
    /\ call.path = <<".", "json">>
    /\ call.content = Accepted
    /\ ~result.val.ok

\* C5 as claimed: the outcome is the same under every scheduling. Running
\* the tasks one after the other in input order is one scheduling, and it
\* returns the error of the first failing item, so the claim says every
\* schedule returns that error.
C5_SameErrorEverySchedule ==
    (BatchReturned /\ Failing # {}) =>
        LET first == CHOOSE i \in Failing : \A j \in Failing : i <= j
        IN batch_result.val = Err(ItemResult(first).error)

\* C5 amended: for a fixed batch, every schedule returns the same list of
\* results when no item fails, and fails when an item fails; the error is the
\* same under every schedule when the failing items all fail with the same
\* error, and is the error of one of the failing items otherwise.
C5_ScheduleIndependent ==
    BatchReturned =>
        /\ Failing = {} =>
              batch_result.val = Ok([i \in 1..Len(files) |-> ItemResult(i).value])
        /\ Failing # {} =>
              /\ ~batch_result.val.ok
              /\ batch_result.val.error \in {ItemResult(i).error : i \in Failing}
              /\ Cardinality({ItemResult(i).error : i \in Failing}) = 1 =>
                    \A i \in Failing : batch_result.val.error = ItemResult(i).error

\* Two items fail with different errors and the later one's error is
\* returned.
C5_Witness ==
    /\ BatchReturned
    /\ \E i, j \in Failing :
          /\ i < j
          /\ ItemResult(i).error # ItemResult(j).error
          /\ batch_result.val = Err(ItemResult(j).error)


\* The units of a result, none when it is an error.
UnitsOf(r) == IF r.ok THEN r.value.units ELSE <<>>

SpansOrdered(r) ==
    \A i \in 1..Len(UnitsOf(r)) : UnitsOf(r)[i].start_line <= UnitsOf(r)[i].end_line

\* C4: every unit of every ParseResult, of the structural extractor or of
\* the config extractor, has start_line <= end_line.
C4_StartLineLeEndLine ==
    /\ FileReturned => SpansOrdered(result.val)
    /\ \A i \in 1..Len(files) : outcome[i].some => SpansOrdered(outcome[i].val.result)

\* A one-line document with two keys: one on the last line, one that occurs
\* nowhere in the text.
C4_Witness ==
    /\ FileReturned
    /\ handler = "config"
    /\ call.content.lines = << <<"a">> >>
    /\ Len(UnitsOf(result.val)) = 2
    /\ \E i \in 1..2 : UnitsOf(result.val)[i].name = <<"b">>

IsJsonCall == FileReturned /\ extension(call.path) = Some(<<"json">>)

Names(units) == [i \in 1..Len(units) |-> units[i].name]

KeyTexts(entries) == [i \in 1..Len(entries) |-> entries[i].key.text]

\* C6 as claimed: the units of a JSON object come in the order in which the
\* members appear in the document.
C6_DocumentOrder ==
    (IsJsonCall /\ call.content.data.kind = "map") =>
        /\ result.val.ok
        /\ Names(UnitsOf(result.val)) = KeyTexts(call.content.data.entries)

\* C6 amended: a JSON object with N distinct keys gives exactly N units, one
\* per key with name = signature = the key and unit_type = class, in the
\* order in which the parsed map iterates: ascending key order, and document
\* order only in a build of serde_json with preserve_order; a top-level
\* value that is no object gives zero units and success.
C6_OneUnitPerJsonKey ==
    /\ (IsJsonCall /\ call.content.data.kind = "map") =>
          LET entries == call.content.data.entries
              units == UnitsOf(result.val)
          IN /\ result.val.ok
             /\ Len(units) = Len(entries)
             /\ Range(Names(units)) = Range(KeyTexts(entries))
             /\ \A i \in 1..Len(units) :
                   units[i].unit_type = "class" /\ units[i].signature = units[i].name
             /\ IF "serde_json" \in build.preserve_order
                THEN Names(units) = KeyTexts(entries)
                ELSE \A i, j \in 1..Len(units) :
                        i < j => StrLess(units[i].name, units[j].name)
    /\ (IsJsonCall /\ call.content.data.kind = "scalar") =>
          result.val = Ok(ParseResult(call.path, "Json", <<>>))

\* The document has the member b before the member a, and the units come a
\* before b.
C6_Witness ==
    /\ IsJsonCall
    /\ KeyTexts(call.content.data.entries) = << <<"b">>, <<"a">> >>
    /\ Names(UnitsOf(result.val)) = << <<"a">>, <<"b">> >>

IsYamlCall ==
    /\ FileReturned
    /\ extension(call.path) \in {Some(<<"yaml">>), Some(<<"yml">>)}

\* C7: a YAML mapping with M string-keyed and K other entries parses
\* successfully to exactly M units, one per string-keyed entry; the other K
\* entries give no unit and no error.
C7_YamlStringKeysOnly ==
    (IsYamlCall /\ call.content.data.kind = "map") =>
        LET strs == SelectSeq(call.content.data.entries, LAMBDA e : e.key.str)
            units == UnitsOf(result.val)
        IN /\ result.val.ok
           /\ Len(units) = Len(strs)
           /\ Range(Names(units)) = Range(KeyTexts(strs))

\* A mapping with one string key and one key that is no string: one unit.
C7_Witness ==
    /\ IsYamlCall
    /\ Len(call.content.data.entries) = 2
    /\ \E i \in 1..2 : ~call.content.data.entries[i].key.str
    /\ result.val.ok
    /\ Len(UnitsOf(result.val)) = 1

\* A call the structural extractor parsed: a registry extension and a tree.
IsParsedCode ==
    /\ FileReturned
    /\ handler = "code"
    /\ extension(call.path).some
    /\ extension(call.path).val \in RegistryExts
    /\ call.content.tree.parsed

OfKind(units, kind) == SelectSeq(units, LAMBDA u : u.unit_type = kind)

AllCompile == [preserve_order |-> {}, broken_queries |-> {}]

\* C8: when the function or the class pattern does not compile, the file
\* still parses successfully, with zero units of the failing kind and
\* exactly the units it would have held for the other kind.
C8_PatternFailureIsLocal ==
    IsParsedCode =>
        LET healthy == parse_file(call.path, call.content, AllCompile).value.units
        IN /\ result.val.ok
           /\ \A kind \in {"function", "class"} :
                 OfKind(UnitsOf(result.val), kind) =
                     IF kind \in build.broken_queries THEN <<>> ELSE OfKind(healthy, kind)

\* The function pattern fails on a file with a function and a class: the
\* result holds the class units only.
C8_Witness ==
    /\ IsParsedCode
    /\ build.broken_queries = {"function"}
    /\ \E i, j \in 1..Len(call.content.tree.constructs) :
          /\ call.content.tree.constructs[i].kind = "function"
          /\ call.content.tree.constructs[j].kind = "class"
    /\ result.val.ok
    /\ UnitsOf(result.val) # <<>>
    /\ \A i \in 1..Len(UnitsOf(result.val)) : UnitsOf(result.val)[i].unit_type = "class"

\* The start bytes of the first captured nodes of the items the engine
\* yields for a pattern, in the order of the yield.
YieldStarts(kind) ==
    LET items == captures(query_matches(call.content.tree, kind))
    IN [i \in 1..Len(items) |-> items[i].match.captures[1].start_byte]

StartBytes(units) == [i \in 1..Len(units) |-> units[i].start_byte]

\* C9: in a result of the structural extractor every function unit comes
\* before every class unit, and the units of each kind are in the order in
\* which the engine yielded them, not sorted by position.
C9_FunctionsThenClasses ==
    IsParsedCode =>
        LET units == UnitsOf(result.val)
        IN /\ \A i, j \in 1..Len(units) :
                 (i < j /\ units[i].unit_type = "class") => units[j].unit_type = "class"
           /\ \A kind \in {"function", "class"} :
                 kind \notin build.broken_queries =>
                     StartBytes(OfKind(units, kind)) = YieldStarts(kind)

\* A class at byte 0 and a function at byte 6: the function unit is first.
C9_Witness ==
    /\ IsParsedCode
    /\ Len(UnitsOf(result.val)) = 2
    /\ UnitsOf(result.val)[1].unit_type = "function"
    /\ UnitsOf(result.val)[1].start_byte = 6
    /\ UnitsOf(result.val)[2].unit_type = "class"
    /\ UnitsOf(result.val)[2].start_byte = 0

\* C10: the structural extractor emits exactly one unit per pattern match,
\* built from the match's first captured node, however many captures the
\* match has.
C10_OneUnitPerMatch ==
    (IsParsedCode /\ build.broken_queries = {}) =>
        \A kind \in {"function", "class"} :
            LET matches == query_matches(call.content.tree, kind)
                units == OfKind(UnitsOf(result.val), kind)
            IN /\ Len(units) = Len(matches)
               /\ \A i \in 1..Len(units) :
                     units[i].start_byte = matches[i].captures[1].start_byte

---------------------------------------------------------------------------
\* Properties of find_key_lines (specification SpecKeyLines).

\* The 1-indexed lines of a text on which the key text occurs.
KeyHits(lines, key) ==
    {i \in 1..Len(lines) :
        \E k \in 0..(Len(lines[i]) - Len(key)) :
            \A j \in 1..Len(key) : lines[i][k + j] = key[j]}

\* The lines after line s that start the next top-level entry.
TopLevelAfter(lines, s) ==
    {n \in (s + 1)..Len(lines) :
        /\ \E j \in 1..Len(lines[n]) : lines[n][j] \notin {" ", "\t", "\n", "\r"}
        /\ lines[n][1] \notin {" ", "\t"}}

\* C11: start_line is the 1-indexed position of the first line that contains
\* the key as a substring, so no line on which the key occurs comes before it;
\* when no line contains the key the span is (1, number of lines).
C11_StartIsFirstHit ==
    scan.done =>
        LET hits == KeyHits(scan.lines, scan.key)
        IN IF hits = {}
           THEN scan.span = <<1, Len(scan.lines)>>
           ELSE /\ scan.span[1] \in hits
                /\ \A j \in hits : scan.span[1] <= j

\* A three-line text where the key "a" occurs on line 2 inside a longer word
\* and again on line 3, and the call returned start_line 2.
C11_Witness ==
    /\ scan.done
    /\ scan.key = <<"a">>
    /\ scan.lines = << <<"b">>, <<"b", "a", "b">>, <<"a">> >>
    /\ KeyHits(scan.lines, scan.key) = {2, 3}
    /\ scan.span[1] = 2

\* The key is nowhere in a non-empty text and the span is the whole text.
C11_WitnessNotFound ==
    /\ scan.done
    /\ Len(scan.lines) = 3
    /\ KeyHits(scan.lines, scan.key) = {}
    /\ scan.span = <<1, 3>>

\* C12: when the key is found on line s, end_line is the line just before the
\* first line after s that is not blank after trimming and does not start with
\* a space or a tab; when no later line qualifies it is the last line of the
\* text, which is s itself when s is the last line.
C12_EndBeforeNextTopLevel ==
    (scan.done /\ KeyHits(scan.lines, scan.key) # {}) =>
        LET s == scan.span[1]
            tops == TopLevelAfter(scan.lines, s)
        IN /\ tops # {} =>
                \E t \in tops : /\ \A u \in tops : t <= u
                                 /\ scan.span[2] = t - 1
           /\ tops = {} => scan.span[2] = Len(scan.lines)
           /\ s = Len(scan.lines) => scan.span[2] = s

\* The key is on line 1, line 2 is blank, line 3 starts the next top-level
\* entry, and the call returned end_line 2.
C12_Witness ==
    /\ scan.done
    /\ scan.key = <<"a">>
    /\ scan.lines = << <<"a">>, <<>>, <<"b">> >>
    /\ scan.span = <<1, 2>>

---------------------------------------------------------------------------
\* Parser instances of a batch (specification Spec).

\* The items of the running batch whose task handles a code file.
CodeTasks ==
    {i \in 1..Len(files) :
        unwrap_or_empty(extension(files[i].path)) \notin ConfigExts}

\* C13: batch tasks share no parser: every task that handles a code file
\* builds its own CodeParser before it parses and uses that one only, so in
\* every interleaving no parser instance is used by two tasks.
C13_OwnParserPerTask ==
    op = "batch_parse_files" =>
        \A i \in 1..Len(files) :
            /\ parsers[i].users \subseteq {i}
            /\ parsers[i].users # {} => parsers[i].built
            /\ parsers[i].built <=> (i \in CodeTasks /\ task[i] \in {"running", "done"})
            /\ (i \in CodeTasks /\ task[i] = "done") => parsers[i].users = {i}

\* Two tasks on code files overlap: one has parsed with its own parser while
\* the other, started before, still holds its own unused one.
C13_Witness ==
    /\ op = "batch_parse_files"
    /\ \E i, j \in CodeTasks :
          /\ i < j
          /\ task[i] = "running" /\ parsers[i] = [built |-> TRUE, users |-> {}]
          /\ task[j] = "done" /\ parsers[j] = [built |-> TRUE, users |-> {j}]

---------------------------------------------------------------------------
\* Byte offsets of config units (specification Spec).

\* Every unit of result r starts at byte 0 and ends at the length of its content.
WholeContentBytes(r) ==
    \A i \in 1..Len(UnitsOf(r)) :
        /\ UnitsOf(r)[i].start_byte = 0
        /\ UnitsOf(r)[i].end_byte = Len(UnitsOf(r)[i].content)

\* C14: every unit the config extractor produces, for JSON, YAML or TOML, has
\* start_byte = 0 and end_byte = the length of its synthesized content,
\* wherever the key stands in the source.
C14_ConfigByteOffsets ==
    /\ (FileReturned /\ handler = "config") => WholeContentBytes(result.val)
    /\ \A i \in 1..Len(files) :
          (outcome[i].some /\ outcome[i].val.handler = "config")
              => WholeContentBytes(outcome[i].val.result)

\* A config file of each format gave a unit whose key stands on line 2 of the
\* source, with start_byte 0 and end_byte the length of its content.
KeyOnLineTwo(ext) ==
    /\ FileReturned /\ handler = "config"
    /\ extension(call.path) = Some(<<ext>>)
    /\ \E i \in 1..Len(UnitsOf(result.val)) :
          LET u == UnitsOf(result.val)[i]
          IN /\ u.start_line = 2
             /\ u.start_byte = 0
             /\ u.end_byte = Len(u.content)
             /\ u.end_byte > 0

C14_Witness == KeyOnLineTwo("json")

C14_WitnessYaml == KeyOnLineTwo("yaml")

C14_WitnessToml == KeyOnLineTwo("toml")

---------------------------------------------------------------------------
\* The list a batch returns (specification Spec).

\* C15: when batch_parse_files succeeds, the list has the length of the input
\* and its order under every schedule of the tasks: the i-th result has the
\* i-th path and is what parse_source_file returns for the i-th pair
\* (parse_time_ms aside); an empty batch succeeds with an empty list.
C15_BatchEqualsSingleCalls ==
    /\ (BatchReturned /\ batch_result.val.ok) =>
          LET v == batch_result.val.value
          IN /\ Len(v) = Len(files)
             /\ \A i \in 1..Len(files) :
                   /\ v[i].file_path = files[i].path
                   /\ Ok(v[i]) = parse_source_file(files[i].path, files[i].content,
                                                   build).result
    /\ (BatchReturned /\ files = <<>>) => batch_result.val = Ok(<<>>)

\* A batch of a code file, a config file and the code file again returned
\* its three results.
C15_Witness ==
    /\ BatchReturned /\ batch_result.val.ok
    /\ Len(files) = 3
    /\ files[1].path = <<"a", ".", "py">>
    /\ files[2].path = <<"a", ".", "json">>
    /\ files[3] = files[1]
    /\ Len(batch_result.val.value) = 3
    /\ batch_result.val.value[1] # batch_result.val.value[2]

\* The empty batch returned the empty list.
C15_WitnessEmpty == BatchReturned /\ files = <<>> /\ batch_result.val = Ok(<<>>)

====
